---- MODULE Spec2Model ----
(***************************************************************************)
(* Model of relay.py: the Relay class (a session on one USB HID relay      *)
(* board) and the command-line entry point.                                *)
(*                                                                         *)
(* The hid device object is the environment.  Its calls can raise, and     *)
(* send_feature_report can also return a failure code, which               *)
(* Relay.send_feature_report discards.  A handle that is not open raises   *)
(* ValueError on every I/O call and accepts close() any number of times.   *)
(*                                                                         *)
(* Python values: None, True and False are the strings "None", "True" and  *)
(* "False"; a command-line text is a sequence of one-character strings,    *)
(* and an absent option is NoArg, which is no such sequence.               *)
(***************************************************************************)
EXTENDS Integers, Sequences, FiniteSets, TLC

VARIABLES mode, pc, args, port, switchOn, handle, opened, atexit,
          relays, serial, last, exc, prevVec, cleanups, ncalls

vars == << mode, pc, args, port, switchOn, handle, opened, atexit,
           relays, serial, last, exc, prevVec, cleanups, ncalls >>

(* ------------------------------ bounds --------------------------------- *)

\* relayport is drawn from 0 .. MaxPort, and from -1 and -MaxPort
MaxPort == 9

\* state() is called at most MaxCalls times on a session
MaxCalls == 2

\* the program calls cleanup() at most MaxCleanups times before it exits
MaxCleanups == 2

(* ------------------------- program constants --------------------------- *)

idvendor == 5824        \* 0x16c0
idproduct == 1503       \* 0x05df
feature == 1
length == 8
AllOn == 254            \* 0xFE
AllOff == 252           \* 0xFC
OneOn == 255            \* 0xFF
OneOff == 253           \* 0xFD
Width == 8              \* '{0:08b}'
StatusByte == 7         \* report[7]

(* --------------------------- Python helpers ---------------------------- *)

NoArg == << "None" >>

Digits == << "0", "1", "2", "3", "4", "5", "6", "7", "8", "9" >>

IsDigit(c) == \E d \in 1..10 : Digits[d] = c

DigitValue(c) == (CHOOSE d \in 1..10 : Digits[d] = c) - 1

RECURSIVE Decimal(_)
\* the value of digits, the "_" between them skipped
Decimal(s) ==
    IF s = << >> THEN 0
    ELSE IF s[Len(s)] = "_" THEN Decimal(SubSeq(s, 1, Len(s) - 1))
    ELSE 10 * Decimal(SubSeq(s, 1, Len(s) - 1)) + DigitValue(s[Len(s)])

\* digits, with single "_" allowed between two digits
AllDigits(s) ==
    /\ Len(s) > 0
    /\ \A i \in 1..Len(s) :
          \/ IsDigit(s[i])
          \/ s[i] = "_" /\ 1 < i /\ i < Len(s) /\ IsDigit(s[i - 1]) /\ IsDigit(s[i + 1])

\* the ASCII white space int() strips: blank, \t, \n, \r, \f and the
\* vertical tab (\x0b, the raw character in the last string)
Whitespace == { " ", "\t", "\n", "\r", "\f", "" }

RECURSIVE Strip(_)
Strip(s) ==
    IF Len(s) > 0 /\ s[1] \in Whitespace THEN Strip(Tail(s))
    ELSE IF Len(s) > 0 /\ s[Len(s)] \in Whitespace THEN Strip(SubSeq(s, 1, Len(s) - 1))
    ELSE s

Signed(s) == Len(s) > 0 /\ s[1] \in { "-", "+" }

\* int(text) accepts white space around an optional sign and decimal digits
\* with single "_" between digits, and raises ValueError for any other text;
\* for ASCII texts within int()'s limit of 4300 digits
IntOK(s) == IF Signed(Strip(s)) THEN AllDigits(Tail(Strip(s))) ELSE AllDigits(Strip(s))

Int_(s) ==
    IF Strip(s)[1] = "-" THEN 0 - Decimal(Tail(Strip(s)))
    ELSE IF Strip(s)[1] = "+" THEN Decimal(Tail(Strip(s)))
    ELSE Decimal(Strip(s))

\* truth value of an option value: None and '' are false
Truthy(a) == a # NoArg /\ a # << >>

\* seq[i] on a Python list: 0-based, negative indices count from the end
PyIndexOK(seq, i) == 0 - Len(seq) <= i /\ i < Len(seq)

PyIndex(seq, i) == IF i >= 0 THEN seq[i + 1] ELSE seq[Len(seq) + i + 1]

Reverse(seq) == [i \in 1..Len(seq) |-> seq[Len(seq) + 1 - i]]

RECURSIVE Bin(_)
\* '{0:b}'.format(n): binary digits, most significant first
Bin(n) ==
    IF n < 2 THEN << Digits[n + 1] >>
    ELSE Bin(n \div 2) \o << Digits[(n % 2) + 1] >>

RECURSIVE PadZero(_, _)
PadZero(s, w) == IF Len(s) >= w THEN s ELSE PadZero(<< "0" >> \o s, w)

\* '{0:08b}'.format(n)
Format08b(n) == PadZero(Bin(n), Width)

(* ----------------------------- the device ------------------------------ *)

Bit(r, i) == (r \div (2 ^ i)) % 2

SetBit(r, i) == IF Bit(r, i) = 1 THEN r ELSE r + 2 ^ i

ClearBit(r, i) == IF Bit(r, i) = 1 THEN r - 2 ^ i ELSE r

\* what the board does with a feature report it accepted
DeviceApply(r, message) ==
    IF message = << AllOn >> THEN 255
    ELSE IF message = << AllOff >> THEN 0
    ELSE IF Len(message) = 2 /\ message[2] \in 1..8
         THEN IF message[1] = OneOn THEN SetBit(r, message[2] - 1)
              ELSE ClearBit(r, message[2] - 1)
         ELSE r

\* the feature report the board returns: 5 id bytes, 2 more, the status byte
DeviceReport(ser, r) == ser \o << r >>

Serials == { << 76, 72, 67, 88, 73, 0, 0 >>, << 49, 50, 51, 52, 53, 1, 255 >> }

\* the board a run starts on: the one of the docstring, relay 2 on
InitialSerial == << 76, 72, 67, 88, 73, 0, 0 >>
InitialRelays == { 2 }

(* --------------------------- class Relay ------------------------------- *)

OpenOutcomes == { "ok", "raise" }
NonblockingOutcomes == { "ok", "raise" }
\* "fail": hid's send_feature_report returns a negative result, nothing written
SendOutcomes == { "ok", "fail", "raise" }
\* "short": the device returns fewer than 8 bytes
GetOutcomes == { "ok", "short", "raise" }

\* Relay.__init__: hid.device(), open, set_nonblocking(1), atexit.register
Relay_init(idv, idp, openOut, nbOut) ==
    IF openOut = "raise"
    THEN [handle |-> "unopened", opened |-> << >>, atexit |-> FALSE, exc |-> "OSError"]
    ELSE IF nbOut = "raise"
    THEN [handle |-> "open", opened |-> << idv, idp >>, atexit |-> FALSE, exc |-> "OSError"]
    ELSE [handle |-> "open", opened |-> << idv, idp >>, atexit |-> TRUE, exc |-> ""]

\* cleanup that leaves the handle as it is
cleanup_noclose(h) == h

\* Relay.cleanup: device_instance.close()
cleanup(h) == IF h = "open" THEN "closed" ELSE h

\* the decoder without the reverse() of line 73
get_switch_statuses_from_report_unreversed(report) ==
    LET chars == Format08b(report[StatusByte + 1])
    IN  [i \in 1..Len(chars) |-> DigitValue(chars[i])]

\* Relay.get_switch_statuses_from_report, for a report that has a byte 7
get_switch_statuses_from_report(report) ==
    LET chars == Format08b(report[StatusByte + 1])
        ints == [i \in 1..Len(chars) |-> DigitValue(chars[i])]
    IN  Reverse(ints)

\* Relay.send_feature_report: the result of the hid call is dropped
send_feature_report(h, r, msg, sendOut) ==
    IF h # "open" THEN [exc |-> "ValueError", relays |-> r]
    ELSE IF sendOut = "raise" THEN [exc |-> "OSError", relays |-> r]
    ELSE IF sendOut = "fail" THEN [exc |-> "", relays |-> r]
    ELSE [exc |-> "", relays |-> DeviceApply(r, msg)]

\* feature 0, which makes hid prepend a byte to the report
get_feature_report_args_feature0 == << 0, length >>

\* the arguments Relay.get_feature_report passes to the hid call
get_feature_report_args == << feature, length >>

\* Relay.get_feature_report
get_feature_report(h, ser, r, getOut) ==
    IF h # "open" THEN [exc |-> "ValueError", report |-> << >>]
    ELSE IF getOut = "raise" THEN [exc |-> "OSError", report |-> << >>]
    ELSE IF getOut = "short" THEN [exc |-> "", report |-> SubSeq(DeviceReport(ser, r), 1, length - 1)]
    ELSE [exc |-> "", report |-> DeviceReport(ser, r)]

\* the command bytes with the two "all channels" commands exchanged
message_swapped(relayport, turnon) ==
    IF relayport = 0
    THEN IF turnon = "True" THEN << AllOff >> ELSE << AllOn >>
    ELSE IF turnon = "True" THEN << OneOn, relayport >> ELSE << OneOff, relayport >>

\* the command bytes state() builds when turnon is not None
message(relayport, turnon) ==
    IF relayport = 0
    THEN IF turnon = "True" THEN << AllOn >> ELSE << AllOff >>
    ELSE IF turnon = "True" THEN << OneOn, relayport >> ELSE << OneOff, relayport >>

\* the single status taken at index relayport instead of relayport - 1
status_of_offbyone(switch_statuses, relayport) ==
    IF relayport = 0
    THEN [exc |-> "", shape |-> "list",
          status |-> [i \in 1..Len(switch_statuses) |-> switch_statuses[i] # 0]]
    ELSE IF PyIndexOK(switch_statuses, relayport)
    THEN [exc |-> "", shape |-> "bool",
          status |-> << PyIndex(switch_statuses, relayport) # 0 >>]
    ELSE [exc |-> "IndexError", shape |-> "none", status |-> << >>]

\* what state() returns from the decoded statuses
status_of(switch_statuses, relayport) ==
    IF relayport = 0
    THEN [exc |-> "", shape |-> "list",
          status |-> [i \in 1..Len(switch_statuses) |-> switch_statuses[i] # 0]]
    ELSE IF PyIndexOK(switch_statuses, relayport - 1)
    THEN [exc |-> "", shape |-> "bool",
          status |-> << PyIndex(switch_statuses, relayport - 1) # 0 >>]
    ELSE [exc |-> "IndexError", shape |-> "none", status |-> << >>]

Blank ==
    [op |-> "none", relayport |-> 0, turnon |-> "None", calls |-> << >>,
     report |-> << >>, switch_statuses |-> << >>, shape |-> "none",
     status |-> << >>, exc |-> "", before |-> 0, relays |-> 0, sent |-> "none"]

\* Relay.state on a device in state r: the hid calls made (calls), how the
\* write went (sent), the value returned (shape, status) or the exception
\* raised (exc), and the device state before and afterwards
state(h, ser, r, relayport, turnon, sendOut, getOut) ==
    LET msg == message(relayport, turnon)
        wr == IF turnon # "None"
              THEN send_feature_report(h, r, msg, sendOut)
              ELSE [exc |-> "", relays |-> r]
        sent == IF turnon = "None" THEN "none"
                ELSE IF wr.exc # "" THEN "raise"
                ELSE sendOut
        c1 == IF turnon # "None"
              THEN << [op |-> "send_feature_report", data |-> msg] >>
              ELSE << >>
        rd == get_feature_report(h, ser, wr.relays, getOut)
        c2 == c1 \o << [op |-> "get_feature_report", data |-> get_feature_report_args] >>
        base == [Blank EXCEPT !.op = "state", !.relayport = relayport,
                              !.turnon = turnon, !.before = r, !.relays = r,
                              !.sent = sent]
    IN  IF wr.exc # ""
        THEN [base EXCEPT !.calls = c1, !.exc = wr.exc]
        ELSE IF rd.exc # ""
        THEN [base EXCEPT !.calls = c2, !.exc = rd.exc, !.relays = wr.relays]
        ELSE IF ~PyIndexOK(rd.report, StatusByte)
        THEN [base EXCEPT !.calls = c2, !.exc = "IndexError", !.relays = wr.relays,
                          !.report = rd.report]
        ELSE LET ss == get_switch_statuses_from_report(rd.report)
                 st == status_of(ss, relayport)
             IN  [base EXCEPT !.calls = c2, !.relays = wr.relays, !.report = rd.report,
                              !.switch_statuses = ss, !.shape = st.shape,
                              !.status = st.status, !.exc = st.exc]

(* ------------------------- the command line ---------------------------- *)

PortTexts == { << "0" >>, << "3" >>, << "8" >>, << "9" >>, << "-", "1" >>,
               << "1", "_", "2" >>, << "\t", "7" >>, << "8", "\n" >>, << "1", "_" >>,
               << "", "7" >>,
               << "x" >>, << >> }

SwitchTexts == { << "T", "r", "u", "e" >>, << "F", "a", "l", "s", "e" >>,
                 << "t", "r", "u", "e" >>, << "1" >> }

IdTexts == { << "9", "0", "1", "0" >> }

\* what parse_args() can return or refuse: --port is required
Args ==
    [port : PortTexts \cup {NoArg}, switch : SwitchTexts \cup {NoArg},
     idVvendor : IdTexts \cup {NoArg}, idProduct : IdTexts \cup {NoArg}]

\* the attributes of the Namespace parse_args() returns, one per add_argument
Namespace == { "port", "switch", "idVvendor", "idProduct" }

\* lines 145-150
switch_of(text) ==
    IF text = << "F", "a", "l", "s", "e" >> THEN "False"
    ELSE IF text = << "T", "r", "u", "e" >> THEN "True"
    ELSE "None"

\* `x is not None if x else default`: True (the integer 1) or the default
id_of(text, default) == IF Truthy(text) THEN 1 ELSE default

(* ------------------------------ actions -------------------------------- *)

NoArgs == [port |-> NoArg, switch |-> NoArg, idVvendor |-> NoArg, idProduct |-> NoArg]

Init ==
    /\ mode \in { "cli", "api" }
    /\ pc = "start"
    /\ args = NoArgs
    /\ port = 0
    /\ switchOn = "None"
    /\ handle = "none"
    /\ opened = << >>
    /\ atexit = FALSE
    /\ relays \in InitialRelays
    /\ serial = InitialSerial
    /\ last = Blank
    /\ exc = ""
    /\ prevVec = << >>
    /\ cleanups = 0
    /\ ncalls = 0

\* the vector of the last completed read of all channels, dropped by a write
NextPrevVec(res) ==
    IF res.exc = "" /\ res.shape = "list" THEN res.status
    ELSE IF res.turnon # "None" THEN << >>
    ELSE prevVec

\* the script, lines 138-155, run to its end or to the first exception
Main(a) ==
    /\ mode = "cli" /\ pc = "start"
    /\ args' = a
    /\ IF a.port = NoArg
       THEN /\ exc' = "SystemExit" /\ pc' = "raised"
            /\ UNCHANGED << port, switchOn, handle, opened, atexit, relays, last, prevVec >>
       ELSE IF ~IntOK(a.port)
       THEN /\ exc' = "ValueError" /\ pc' = "raised"
            /\ UNCHANGED << port, switchOn, handle, opened, atexit, relays, last, prevVec >>
       ELSE /\ port' = Int_(a.port)
            /\ switchOn' = switch_of(a.switch)
            /\ IF "idVendor" \notin Namespace
               THEN /\ exc' = "AttributeError" /\ pc' = "raised"
                    /\ UNCHANGED << handle, opened, atexit, relays, last, prevVec >>
               ELSE \E openOut \in OpenOutcomes, nbOut \in NonblockingOutcomes,
                       sendOut \in SendOutcomes, getOut \in GetOutcomes :
                    LET relay == Relay_init(id_of(a.idVvendor, idvendor),
                                            id_of(a.idProduct, idproduct), openOut, nbOut)
                        res == state(relay.handle, serial, relays, port', switchOn',
                                     sendOut, getOut)
                    IN  /\ handle' = relay.handle
                        /\ opened' = relay.opened
                        /\ atexit' = relay.atexit
                        /\ IF relay.exc # ""
                           THEN /\ exc' = relay.exc /\ pc' = "raised"
                                /\ last' = [Blank EXCEPT !.op = "__init__", !.exc = relay.exc]
                                /\ UNCHANGED << relays, prevVec >>
                           ELSE /\ last' = res
                                /\ relays' = res.relays
                                /\ prevVec' = NextPrevVec(res)
                                /\ exc' = res.exc
                                /\ pc' = IF res.exc = "" THEN "done" ELSE "raised"
    /\ UNCHANGED << mode, serial, cleanups, ncalls >>

\* a program that imports the module constructs the one Relay it uses
NewRelay(idv, idp, openOut, nbOut) ==
    /\ mode = "api" /\ pc = "start"
    /\ LET relay == Relay_init(idv, idp, openOut, nbOut)
       IN  /\ handle' = relay.handle
           /\ opened' = relay.opened
           /\ atexit' = relay.atexit
           /\ exc' = relay.exc
           /\ last' = [Blank EXCEPT !.op = "__init__", !.exc = relay.exc]
           /\ pc' = IF relay.exc = "" THEN "ready" ELSE "raised"
    /\ UNCHANGED << mode, args, port, switchOn, relays, serial, prevVec, cleanups,
                    ncalls >>

\* the outcomes of the hid calls that a call gets to make
SendChoices(t) == IF t = "None" \/ handle # "open" THEN { "ok" } ELSE SendOutcomes

GetChoices(t, s) ==
    IF handle # "open" \/ (t # "None" /\ s = "raise") THEN { "ok" } ELSE GetOutcomes

\* relay.state(relayport, turnon); the caller sees the value or the exception
State(relayport, turnon) ==
    /\ mode = "api" /\ pc = "ready"
    /\ ncalls < MaxCalls
    /\ ncalls' = ncalls + 1
    /\ \E sendOut \in SendChoices(turnon) : \E getOut \in GetChoices(turnon, sendOut) :
       LET res == state(handle, serial, relays, relayport, turnon, sendOut, getOut)
       IN  /\ last' = res
           /\ relays' = res.relays
           /\ prevVec' = NextPrevVec(res)
    /\ UNCHANGED << mode, pc, args, port, switchOn, handle, opened, atexit, serial,
                    exc, cleanups >>

\* relay.send_feature_report(message) called by the program, not by state()
SendFeatureReport(msg) ==
    /\ mode = "api" /\ pc = "ready"
    /\ \E sendOut \in SendChoices("True") :
       LET wr == send_feature_report(handle, relays, msg, sendOut)
       IN  /\ relays' = wr.relays
           /\ last' = [Blank EXCEPT !.op = "send_feature_report",
                                    !.calls = << [op |-> "send_feature_report", data |-> msg] >>,
                                    !.exc = wr.exc, !.before = relays, !.relays = wr.relays,
                                    !.sent = IF wr.exc # "" THEN "raise" ELSE sendOut]
    /\ prevVec' = << >>
    /\ UNCHANGED << mode, pc, args, port, switchOn, handle, opened, atexit, serial,
                    exc, cleanups, ncalls >>

\* relay.get_feature_report() called by the program, not by state()
GetFeatureReport ==
    /\ mode = "api" /\ pc = "ready"
    /\ \E getOut \in GetChoices("None", "ok") :
       LET rd == get_feature_report(handle, serial, relays, getOut)
       IN  last' = [Blank EXCEPT !.op = "get_feature_report",
                                 !.calls = << [op |-> "get_feature_report",
                                              data |-> get_feature_report_args] >>,
                                 !.exc = rd.exc, !.report = rd.report,
                                 !.before = relays, !.relays = relays]
    /\ UNCHANGED << mode, pc, args, port, switchOn, handle, opened, atexit, relays,
                    serial, exc, prevVec, cleanups, ncalls >>

\* relay.cleanup() called by the program
Cleanup ==
    /\ mode = "api" /\ pc = "ready"
    /\ cleanups < MaxCleanups
    /\ cleanups' = cleanups + 1
    /\ handle' = cleanup(handle)
    /\ last' = [Blank EXCEPT !.op = "cleanup"]
    /\ UNCHANGED << mode, pc, args, port, switchOn, opened, atexit, relays, serial,
                    exc, prevVec, ncalls >>

\* the interpreter exits and runs the handlers registered with atexit
Exit ==
    /\ pc \in { "ready", "done", "raised" }
    /\ pc' = "exited"
    /\ handle' = IF atexit THEN cleanup(handle) ELSE handle
    /\ cleanups' = IF atexit THEN cleanups + 1 ELSE cleanups
    /\ UNCHANGED << mode, args, port, switchOn, opened, atexit, relays, serial, last,
                    exc, prevVec, ncalls >>

Ports == (0..MaxPort) \cup { -1, 0 - MaxPort }

TurnOns == { "None", "True", "False" }

IdPairs == { << idvendor, idproduct >> }

\* the messages the program passes to send_feature_report() itself
DirectMessages == { << OneOn, 1 >>, << AllOff >> }


Next ==
    \/ \E a \in Args : Main(a)
    \/ \E ids \in IdPairs, o \in OpenOutcomes, n \in NonblockingOutcomes :
          NewRelay(ids[1], ids[2], o, n)
    \/ \E p \in Ports, t \in TurnOns : State(p, t)
    \/ \E m \in DirectMessages : SendFeatureReport(m)
    \/ GetFeatureReport
    \/ Cleanup
    \/ Exit

Spec == Init /\ [][Next]_vars

(* ----------------- the decoder on every status byte -------------------- *)

InitDecode ==
    /\ mode = "decode"
    /\ pc = "start"
    /\ args = NoArgs
    /\ port = 0
    /\ switchOn = "None"
    /\ handle = "none"
    /\ opened = << >>
    /\ atexit = FALSE
    /\ relays \in 0..255
    /\ serial \in Serials
    /\ last = Blank
    /\ exc = ""
    /\ prevVec = << >>
    /\ cleanups = 0
    /\ ncalls = 0

\* lines 125-129 on the report of the board: decode, then bool() of each
Decode ==
    /\ mode = "decode" /\ pc = "start"
    /\ pc' = "done"
    /\ LET report == DeviceReport(serial, relays)
           ss == get_switch_statuses_from_report(report)
       IN  last' = [Blank EXCEPT !.op = "decode", !.report = report,
                                 !.switch_statuses = ss,
                                 !.shape = status_of(ss, 0).shape,
                                 !.status = status_of(ss, 0).status,
                                 !.before = relays, !.relays = relays]
    /\ UNCHANGED << mode, args, port, switchOn, handle, opened, atexit, relays, serial,
                    exc, prevVec, cleanups, ncalls >>

NextDecode == Decode

SpecDecode == InitDecode /\ [][NextDecode]_vars

(* ------------------------------ claims --------------------------------- *)

Sends(calls) == SelectSeq(calls, LAMBDA c : c.op = "send_feature_report")

Gets(calls) == SelectSeq(calls, LAMBDA c : c.op = "get_feature_report")

CliEnded == mode = "cli" /\ pc \in { "done", "raised", "exited" }

\* C1: a call state(channel, turnOn) with channel outside 0..8 ends in an
\* InvalidArgument error and has made no call on the device before it.
C1_InvalidChannelRejectedBeforeIO ==
    (last.op = "state" /\ last.relayport \notin 0..8)
        => (last.exc = "InvalidArgument" /\ last.calls = << >>)

\* C2: for a channel in 0..8 and a given turnOn, state() sends exactly one
\* feature report, and it is [0xFE] (0 on), [0xFC] (0 off), [0xFF, n] (n on)
\* or [0xFD, n] (n off).
C2_WritePayloads ==
    (last.op = "state" /\ last.relayport \in 0..8 /\ last.turnon # "None")
        => /\ Len(Sends(last.calls)) = 1
           /\ Sends(last.calls)[1].data =
                  IF last.relayport = 0 /\ last.turnon = "True" THEN << 254 >>
                  ELSE IF last.relayport = 0 THEN << 252 >>
                  ELSE IF last.turnon = "True" THEN << 255, last.relayport >>
                  ELSE << 253, last.relayport >>

C2_Witness ==
    /\ last.op = "state" /\ last.relayport = 3 /\ last.turnon = "True"
    /\ last.sent = "ok"
    /\ last.calls[1] = [op |-> "send_feature_report", data |-> << 255, 3 >>]

\* C3: the decoded vector of an 8-byte report has 8 elements, and element i
\* (from 0) is 1 exactly when bit i of byte 7 is set, whatever bytes 0..6 are;
\* [76,72,67,88,73,0,0,2] decodes to [F,T,F,F,F,F,F,F].
C3_DecodeIsBitsOfByte7 ==
    last.op = "decode"
        => /\ Len(last.switch_statuses) = 8
           /\ \A i \in 0..7 :
                 /\ last.switch_statuses[i + 1] \in { 0, 1 }
                 /\ (last.switch_statuses[i + 1] = 1)
                        <=> ((last.report[8] \div (2 ^ i)) % 2 = 1)
                 /\ last.status[i + 1] = (last.switch_statuses[i + 1] = 1)
           /\ Len(last.status) = 8
           /\ (last.report = << 76, 72, 67, 88, 73, 0, 0, 2 >>
                  => last.status = << FALSE, TRUE, FALSE, FALSE, FALSE, FALSE, FALSE, FALSE >>)

C3_Witness ==
    /\ last.op = "decode"
    /\ last.report = << 76, 72, 67, 88, 73, 0, 0, 2 >>
    /\ last.status = << FALSE, TRUE, FALSE, FALSE, FALSE, FALSE, FALSE, FALSE >>

\* C4: a query state(0) returns a vector of 8 booleans, and with no write
\* since that query a query state(c), c in 1..8, returns element c-1 of it.
C4_QueryConsistency ==
    /\ (last.op = "state" /\ last.relayport = 0 /\ last.exc = "")
           => (last.shape = "list" /\ Len(last.status) = 8
               /\ \A i \in 1..8 : last.status[i] \in BOOLEAN)
    /\ (last.op = "state" /\ last.turnon = "None" /\ last.relayport \in 1..8
        /\ last.exc = "" /\ prevVec # << >>)
           => (last.shape = "bool" /\ last.status = << prevVec[last.relayport] >>)

C4_Witness ==
    /\ last.op = "state" /\ last.turnon = "None" /\ last.relayport = 2
    /\ last.exc = "" /\ prevVec # << >>
    /\ prevVec[2] /\ ~prevVec[1]
    /\ last.status = << TRUE >>

\* C5: a call of state() that completes has made exactly one
\* get_feature_report(1, 8), after its single write when turnOn is given, and
\* returns what the device reports then.
C5_OneFreshReadAfterWrite ==
    (last.op = "state" /\ last.exc = "")
        => /\ Len(Gets(last.calls)) = 1
           /\ Gets(last.calls)[1].data = << 1, 8 >>
           /\ last.calls[Len(last.calls)].op = "get_feature_report"
           /\ IF last.turnon = "None"
              THEN Len(last.calls) = 1
              ELSE Len(last.calls) = 2 /\ last.calls[1].op = "send_feature_report"
           /\ last.report = serial \o << relays >>
           /\ last.shape = "list"
                  => \A i \in 1..8 :
                        last.status[i] = ((relays \div (2 ^ (i - 1))) % 2 = 1)
           /\ (last.shape = "bool" /\ last.relayport \in 1..8)
                  => last.status[1] = ((relays \div (2 ^ (last.relayport - 1))) % 2 = 1)

C5_Witness ==
    /\ last.op = "state" /\ last.exc = "" /\ last.turnon = "True"
    /\ last.relayport = 1
    /\ Len(last.calls) = 2
    /\ last.before # relays
    /\ last.status = << TRUE >>

\* the feature report a run with --port p --switch True / False must send
OnOffPayload(p, on) ==
    IF p = 0 THEN (IF on THEN << 254 >> ELSE << 252 >>)
    ELSE (IF on THEN << 255, p >> ELSE << 253, p >>)

ValidPort(text) == IntOK(text) /\ Int_(text) \in 0..8

\* C6: a run of the command line with --switch True asks for channel on, with
\* --switch False for channel off, and with any other or no --switch sends no
\* feature report and leaves the relays as they were.  (A run the device
\* fails, OSError, is excused.)
C6_SwitchRequest ==
    (CliEnded /\ ValidPort(args.port) /\ exc # "OSError")
        => /\ args.switch = << "T", "r", "u", "e" >>
                => /\ Len(Sends(last.calls)) = 1
                   /\ Sends(last.calls)[1].data = OnOffPayload(Int_(args.port), TRUE)
           /\ args.switch = << "F", "a", "l", "s", "e" >>
                => /\ Len(Sends(last.calls)) = 1
                   /\ Sends(last.calls)[1].data = OnOffPayload(Int_(args.port), FALSE)
           /\ args.switch \notin { << "T", "r", "u", "e" >>, << "F", "a", "l", "s", "e" >> }
                => /\ Sends(last.calls) = << >>
                   /\ relays \in InitialRelays

\* C7: a run of the command line with a valid --port gets to open the device,
\* with 0x16c0 / 0x05df or with the number given to --idVvendor / --idProduct.
C7_OpensWithIdentifiers ==
    (CliEnded /\ ValidPort(args.port))
        => /\ handle # "none"
           /\ opened # << >>
                => /\ opened[1] = IF args.idVvendor = NoArg THEN 5824
                                  ELSE Int_(args.idVvendor)
                   /\ opened[2] = IF args.idProduct = NoArg THEN 1503
                                  ELSE Int_(args.idProduct)

\* C8: when the process has ended, a handle that was opened has been closed.
C8_HandleReleasedAtExit == pc = "exited" => handle # "open"

\* C9: cleanup() raises nothing, also when it is called again or at exit after
\* a call, the handle stays closed after it, and every state() call after it
\* ends in an error and returns no value.
C9_CloseIsFinal ==
    /\ last.op = "cleanup" => last.exc = ""
    /\ cleanups >= 1 => handle # "open"
    /\ (cleanups >= 1 /\ pc = "ready"
        /\ last.op \in { "state", "send_feature_report", "get_feature_report" })
           => (last.exc # "" /\ last.shape = "none" /\ last.status = << >>
               /\ last.report = << >> /\ last.relays = last.before)

C9_Witness ==
    /\ cleanups >= 2 /\ pc = "ready"
    /\ last.op = "state" /\ last.exc = "ValueError"

\* C10: when the write of a state() call (on a channel 0..8) fails, no read
\* is made and no value is returned; when the read fails no value is returned;
\* the caller gets the error, and each of the two device calls is made at most
\* once.
C10_TransportErrorAborts ==
    (last.op = "state" /\ last.relayport \in 0..8)
        => /\ last.sent \in { "fail", "raise" }
                => (last.exc # "" /\ Gets(last.calls) = << >> /\ last.shape = "none")
           /\ (Gets(last.calls) # << >> /\ last.report = << >>)
                => (last.exc # "" /\ last.shape = "none")
           /\ Len(Sends(last.calls)) <= 1
           /\ Len(Gets(last.calls)) <= 1

====
